---- MODULE Spec2Model ----
(***************************************************************************)
(* A model of the capture pipeline of wayshot / libwayshot:                *)
(*   - the screen-copy frame event handler and the capture session around  *)
(*     it (dispatch.rs, CaptureFrameState; screencopy.rs, FrameGuard),     *)
(*   - the registry handler that collects outputs (dispatch.rs),           *)
(*   - the pixel format converters and the conversion of a captured frame  *)
(*     to an image (convert.rs; screencopy.rs, TryFrom<&FrameCopy>).       *)
(* Each part has its own specification over the shared variables; the      *)
(* variables of the other parts stay at their initial values.              *)
(***************************************************************************)
EXTENDS Integers, Sequences, FiniteSets, TLC

VARIABLES
    \* ---- capture session (CaptureFrameState and the session around it)
    formats,        \* CaptureFrameState.formats : Vec<FrameFormat>
    state,          \* CaptureFrameState.state   : Option<FrameState>
    buffer_done,    \* CaptureFrameState.buffer_done : AtomicBool
    phase,          \* position of the session (begin / allocate_and_copy / finish)
    session,        \* number of the current capture session (0 = none yet)
    guards,         \* the FrameGuard values alive (at most one)
    live,           \* compositor-side objects created and not destroyed
    created,        \* compositor-side objects ever created
    destroyLog,     \* the destroy requests sent, in order
    outcome,        \* what finish() reported for the current session
    lastEvent,      \* the frame event the handler was last called with
    terminalSeen,   \* a Ready or Failed event was delivered to this session
    \* ---- output registry (OutputCaptureState)
    outputs,        \* OutputCaptureState.outputs : Vec<OutputInfo>
    globalLog,      \* the registry events delivered so far, in order
    lastOutputEvent,\* the output event the handlers were last called with
    nOutputEvents,  \* the number of output events delivered
    undone,         \* indices whose logical region arrived and no Done since
    listed,         \* what list_outputs returned (<<>> before the call)
    listedUndone,   \* the value of undone when list_outputs returned
    hasListed,      \* list_outputs has returned
    \* ---- conversion of a captured frame
    frame,          \* the FrameCopy given to the conversion
    conv,           \* the converter function applied and what it returned
    result,         \* what TryFrom<&FrameCopy> for DynamicImage returned
    \* ---- one packed 2-10-10-10 pixel
    chunk,          \* the four bytes given to pixel_abgr2101010_to_rgba16
    rgba16,         \* the [u16; 4] it returned
    \* ---- create_shm_fd
    shm_pc,         \* the OS call create_shm_fd makes next, or "returned"
    mem_file_handle,\* the name kept for shm_open
    handle_gen,     \* parity of the number of names generated
    shm_ret,        \* what create_shm_fd returned
    open_fds,       \* descriptors opened by the call and still open
    linked,         \* named objects created by the call and still linked
    unlink_errno,   \* the error of a failed shm_unlink, while close runs
    lastCall,       \* the last OS call and what the OS answered
    tick,           \* parity of the number of creation calls made
    configured_outputs, \* LayerShellState.configured_outputs
    acks,           \* the ack_configure requests sent, in order
    layerLog,       \* the layer surface events delivered, in order
    self_stride,    \* FrameFormat.stride, a u32 as four bytes, lowest first
    self_height,    \* FrameFormat.size.height, likewise
    byte_size_ret   \* what byte_size returned (not called yet: called = FALSE)

vars == <<formats, state, buffer_done, phase, session, guards, live, created,
          destroyLog, outcome, lastEvent, terminalSeen, outputs, globalLog, lastOutputEvent, nOutputEvents,
          undone, listed, listedUndone, hasListed, frame, conv, result,
          chunk, rgba16, shm_pc, mem_file_handle, handle_gen, shm_ret, open_fds, linked,
          unlink_errno, lastCall, tick, configured_outputs, acks, layerLog,
          self_stride, self_height, byte_size_ret>>

captureVars == <<formats, state, buffer_done, phase, session, guards, live,
                 created, destroyLog, outcome, lastEvent, terminalSeen>>
outputEventVars == <<lastOutputEvent, nOutputEvents, undone, listed,
                     listedUndone, hasListed>>
registryVars == <<outputs, globalLog, outputEventVars>>
convertVars == <<frame, conv, result>>
pixelVars == <<chunk, rgba16>>
layerVars == <<configured_outputs, acks, layerLog>>
byteSizeVars == <<self_stride, self_height, byte_size_ret>>
shmVars == <<shm_pc, mem_file_handle, handle_gen, shm_ret, open_fds, linked, unlink_errno,
            lastCall, tick>>

\* ------------------------------------------------------------------ bounds
MaxFormats == 2      \* format advertisements kept per session
MaxCaptures == 2     \* sequential capture sessions
MaxGlobals == 3      \* registry events delivered
MaxAdverts == 2      \* registry events delivered while output events arrive
MaxOutputEvents == 2 \* output events delivered
MaxLayerEvents == 3  \* layer surface events delivered
MaxPixels == 4       \* complete pixels in a mapped buffer
MaxDim == 2          \* width and height of a frame

\* ------------------------------------------------------------------ capture session

\* Option<FrameState>: None is written "Pending".
Pending == "Pending"
Finished == "Finished"
Failed == "Failed"

\* A frame event with the fields of zwlr_screencopy_frame_v1::Event that the
\* handler reads. known = FALSE is a WEnum::Unknown format value.
FrameEv(type) ==
    [type |-> type, known |-> FALSE, format |-> "none",
     width |-> 0, height |-> 0, stride |-> 0]

BufferEvents ==
    { [type |-> "Buffer", known |-> k, format |-> f,
       width |-> 1, height |-> 1, stride |-> 4] :
          k \in BOOLEAN, f \in {"Xrgb8888", "Abgr8888"} }

FrameEvents ==
    BufferEvents \cup
    { FrameEv(t) : t \in {"Ready", "Failed", "Damage", "LinuxDmabuf",
                          "BufferDone", "Flags", "Unknown"} }

\* A handler that gives up the frame on an event it has no arm for.
FrameEvent_OtherFails(fr, event) ==
    CASE event.type = "Buffer" ->
            IF event.known
            THEN [fr EXCEPT !.formats =
                     Append(@, [format |-> event.format,
                                size |-> [width |-> event.width,
                                          height |-> event.height],
                                stride |-> event.stride])]
            ELSE fr
      [] event.type = "Ready" -> [fr EXCEPT !.state = Finished]
      [] event.type = "Failed" -> [fr EXCEPT !.state = Failed]
      [] event.type = "Damage" -> fr
      [] event.type = "LinuxDmabuf" -> fr
      [] event.type = "BufferDone" -> [fr EXCEPT !.buffer_done = TRUE]
      [] OTHER -> [fr EXCEPT !.state = Failed]

\* Dispatch<ZwlrScreencopyFrameV1, ()>::event: the new CaptureFrameState.
FrameEvent(fr, event) ==
    CASE event.type = "Buffer" ->
            IF event.known
            THEN [fr EXCEPT !.formats =
                     Append(@, [format |-> event.format,
                                size |-> [width |-> event.width,
                                          height |-> event.height],
                                stride |-> event.stride])]
            ELSE fr
      [] event.type = "Ready" -> [fr EXCEPT !.state = Finished]
      [] event.type = "Failed" -> [fr EXCEPT !.state = Failed]
      [] event.type = "Damage" -> fr
      [] event.type = "LinuxDmabuf" -> fr
      [] event.type = "BufferDone" -> [fr EXCEPT !.buffer_done = TRUE]
      [] OTHER -> fr

\* The compositor-side objects of session s.
BufferOf(s) == [kind |-> "wl_buffer", session |-> s]
PoolOf(s) == [kind |-> "wl_shm_pool", session |-> s]

\* proxy.destroy(): the request is sent and the object is gone.
Destroy(comp, obj) ==
    [live |-> comp.live \ {obj}, log |-> Append(comp.log, obj)]

\* A drop that destroys the buffer and forgets the pool.
FrameGuardDrop_ForgetsPool(g, comp) ==
    Destroy(comp, g.buffer)

\* impl Drop for FrameGuard.
FrameGuardDrop(g, comp) ==
    Destroy(Destroy(comp, g.buffer), g.shm_pool)

\* The session owns the frame state while it waits for events: the two waits
\* (for the end of the negotiation, for the end of the copy) drain the queue.
Draining == phase \in {"AwaitingBufferFormats", "CopyRequested"}

\* begin(output, options): a new session with a fresh CaptureFrameState.
Begin ==
    /\ phase \in {"Idle", "Discarded"}
    /\ session < MaxCaptures
    /\ session' = session + 1
    /\ formats' = <<>>
    /\ state' = Pending
    /\ buffer_done' = FALSE
    /\ phase' = "AwaitingBufferFormats"
    /\ outcome' = "none"
    /\ lastEvent' = FrameEv("none")
    /\ terminalSeen' = FALSE
    /\ UNCHANGED <<guards, live, created, destroyLog>>

\* One event of the frame object is dispatched to the handler.
DispatchFrameEvent ==
    /\ Draining
    /\ \E event \in FrameEvents :
         /\ event.type = "Buffer" /\ event.known => Len(formats) < MaxFormats
         /\ LET fr == FrameEvent([formats |-> formats, state |-> state,
                                  buffer_done |-> buffer_done], event)
            IN /\ formats' = fr.formats
               /\ state' = fr.state
               /\ buffer_done' = fr.buffer_done
         /\ lastEvent' = event
         /\ terminalSeen' = (terminalSeen \/ event.type \in {"Ready", "Failed"})
    /\ UNCHANGED <<phase, session, guards, live, created, destroyLog, outcome>>

\* The wait for the negotiation ends once buffer_done is read as true.
Negotiated ==
    /\ phase = "AwaitingBufferFormats"
    /\ buffer_done
    /\ phase' = "BufferNegotiated"
    /\ UNCHANGED <<formats, state, buffer_done, session, guards, live, created,
                   destroyLog, outcome, lastEvent, terminalSeen>>

\* allocate_and_copy(chosen_format), for a format that was advertised: pool
\* and buffer are created, the guard takes them, the copy is requested.
AllocateAndCopy ==
    /\ phase = "BufferNegotiated"
    /\ formats # <<>>
    /\ live' = live \cup {BufferOf(session), PoolOf(session)}
    /\ created' = created \cup {BufferOf(session), PoolOf(session)}
    /\ guards' = {[buffer |-> BufferOf(session), shm_pool |-> PoolOf(session)]}
    /\ phase' = "CopyRequested"
    /\ UNCHANGED <<formats, state, buffer_done, session, destroyLog, outcome,
                   lastEvent, terminalSeen>>

\* finish(): the terminal state decides the outcome.
Finish ==
    /\ phase = "CopyRequested"
    /\ state # Pending
    /\ outcome' = IF state = Finished THEN "FrameCaptureResult"
                                      ELSE "CompositorRejected"
    /\ phase' = "Resolved"
    /\ UNCHANGED <<formats, state, buffer_done, session, guards, live, created,
                   destroyLog, lastEvent, terminalSeen>>

\* A session that forgets its guard when the copy has failed.
Discard_LeaksAfterFailed ==
    /\ phase \in {"AwaitingBufferFormats", "BufferNegotiated", "CopyRequested",
                  "Resolved"}
    /\ LET comp == [live |-> live, log |-> destroyLog]
           after == IF guards = {} \/ state = Failed THEN comp
                    ELSE FrameGuardDrop(CHOOSE g \in guards : TRUE, comp)
       IN /\ live' = after.live
          /\ destroyLog' = after.log
    /\ guards' = {}
    /\ phase' = "Discarded"
    /\ UNCHANGED <<formats, state, buffer_done, session, created, outcome,
                   lastEvent, terminalSeen>>

\* The session is discarded (after finish, on an early error return, or
\* without finish ever being called): its guard, if any, is dropped.
Discard ==
    /\ phase \in {"AwaitingBufferFormats", "BufferNegotiated", "CopyRequested",
                  "Resolved"}
    /\ LET comp == [live |-> live, log |-> destroyLog]
           after == IF guards = {} THEN comp
                    ELSE FrameGuardDrop(CHOOSE g \in guards : TRUE, comp)
       IN /\ live' = after.live
          /\ destroyLog' = after.log
    /\ guards' = {}
    /\ phase' = "Discarded"
    /\ UNCHANGED <<formats, state, buffer_done, session, created, outcome,
                   lastEvent, terminalSeen>>

\* ------------------------------------------------------------------ output registry

Interfaces == {"wl_output", "wl_shm", "zwlr_screencopy_manager_v1"}
Versions == {3, 4, 5}
GlobalNames == {1, 2}

RegistryEvents ==
    { [type |-> "Global", name |-> n, interface |-> i, version |-> v] :
          n \in GlobalNames, i \in Interfaces, v \in Versions }
    \cup { [type |-> "GlobalRemove", name |-> n, interface |-> "", version |-> 0] :
              n \in GlobalNames }

\* Size::default(), Position::default(), LogicalRegion::default()
DefaultSize == [width |-> 0, height |-> 0]
DefaultPosition == [x |-> 0, y |-> 0]
DefaultRegion == [position |-> DefaultPosition, size |-> DefaultSize]

\* wl_registry.bind::<WlOutput>(name, 4, ..): the proxy of the bound global.
\* nth tells the proxies of two binds apart.
Bind(name, version, nth) == [global |-> name, version |-> version, nth |-> nth]

\* A handler that takes every wl_output from version 3 on.
RegistryEvent_FromVersion3(outs, event, nth) ==
    IF event.type = "Global" /\ event.interface = "wl_output" /\ event.version >= 3
    THEN Append(outs, [wl_output |-> Bind(event.name, 4, nth),
                       name |-> "",
                       description |-> "",
                       transform |-> "Normal",
                       physical_size |-> DefaultSize,
                       logical_region |-> DefaultRegion])
    ELSE outs

\* Dispatch<WlRegistry, ()>::event: the new output list. nth counts the
\* events delivered, this one included.
RegistryEvent(outs, event, nth) ==
    IF event.type = "Global"
    THEN IF event.interface = "wl_output"
         THEN IF event.version >= 4
              THEN Append(outs, [wl_output |-> Bind(event.name, 4, nth),
                                 name |-> "",
                                 description |-> "",
                                 transform |-> "Normal",
                                 physical_size |-> DefaultSize,
                                 logical_region |-> DefaultRegion])
              ELSE outs
         ELSE outs
    ELSE outs

DispatchRegistryEvent ==
    /\ Len(globalLog) < MaxGlobals
    /\ \E event \in RegistryEvents :
         /\ outputs' = RegistryEvent(outputs, event, Len(globalLog) + 1)
         /\ globalLog' = Append(globalLog, event)
    /\ UNCHANGED outputEventVars

\* ---- events of the overlay surfaces

\* The wl_output each layer surface was created for (the handler's data).
SurfaceOutputs == {"output-1", "output-2"}
Serials == {7, 8}

LayerEv(type, serial) == [type |-> type, serial |-> serial]

LayerSurfaceEvents ==
    { LayerEv("Configure", n) : n \in Serials }
    \cup { LayerEv("Closed", 0), LayerEv("Unknown", 0) }

\* A handler that counts a closed surface as configured.
LayerSurfaceEvent_InsertsOnClosed(st, data, event) ==
    CASE event.type = "Configure" ->
            [configured_outputs |-> st.configured_outputs \cup {data},
             acks |-> Append(st.acks, [surface |-> data, serial |-> event.serial])]
      [] event.type = "Closed" ->
            [st EXCEPT !.configured_outputs = @ \cup {data}]
      [] OTHER -> st

\* Dispatch<ZwlrLayerSurfaceV1, WlOutput>::event. st is the configured set
\* with the requests sent so far; the surface is named by its output.
LayerSurfaceEvent(st, data, event) ==
    CASE event.type = "Configure" ->
            [configured_outputs |-> st.configured_outputs \cup {data},
             acks |-> Append(st.acks, [surface |-> data, serial |-> event.serial])]
      [] event.type = "Closed" -> st
      [] OTHER -> st

DispatchLayerSurfaceEvent ==
    /\ Len(layerLog) < MaxLayerEvents
    /\ \E data \in SurfaceOutputs, event \in LayerSurfaceEvents :
         LET st == LayerSurfaceEvent(
                     [configured_outputs |-> configured_outputs, acks |-> acks],
                     data, event)
         IN /\ configured_outputs' = st.configured_outputs
            /\ acks' = st.acks
            /\ layerLog' = Append(layerLog, [surface |-> data, ev |-> event])

\* ---- events of the outputs

\* An event of wl_output or zxdg_output_v1 with the fields the handlers read.
\* known = FALSE is a WEnum::Unknown transform. Sizes are not negative, so
\* that `as u32` keeps them.
OutEv(type) ==
    [type |-> type, text |-> "", width |-> 0, height |-> 0, x |-> 0, y |-> 0,
     known |-> FALSE, transform |-> "Normal"]

WlOutputEvents ==
    { [OutEv("Name") EXCEPT !.text = "DP-1"],
      [OutEv("Description") EXCEPT !.text = "Monitor"],
      [OutEv("Mode") EXCEPT !.width = 1920, !.height = 1080],
      [OutEv("Geometry") EXCEPT !.known = TRUE, !.transform = "_90"],
      OutEv("Geometry"),
      OutEv("Scale"), OutEv("Done"), OutEv("Unknown") }

XdgOutputEvents ==
    { [OutEv("LogicalPosition") EXCEPT !.x = 10, !.y = 20],
      [OutEv("LogicalSize") EXCEPT !.width = 1280, !.height = 720],
      OutEv("Done"), OutEv("Name"), OutEv("Description"), OutEv("Unknown") }

\* A wl_output proxy that the registry handler never bound.
ForeignProxy == Bind(9, 4, 0)
NoProxy == Bind(0, 0, 0)

\* state.outputs.iter_mut().find(|x| x.wl_output == *wl_output): the position
\* of the first match, 0 for None.
FindOutput(outs, wl_output) ==
    IF \E i \in 1..Len(outs) : outs[i].wl_output = wl_output
    THEN CHOOSE i \in 1..Len(outs) :
            /\ outs[i].wl_output = wl_output
            /\ \A j \in 1..(i - 1) : outs[j].wl_output # wl_output
    ELSE 0

\* Dispatch<WlOutput, ()>::event: the new output list.
WlOutputEvent(outs, wl_output, event) ==
    LET i == FindOutput(outs, wl_output)
    IN IF i = 0 THEN outs
       ELSE CASE event.type = "Name" -> [outs EXCEPT ![i].name = event.text]
              [] event.type = "Description" ->
                    [outs EXCEPT ![i].description = event.text]
              [] event.type = "Mode" ->
                    [outs EXCEPT ![i].physical_size =
                        [width |-> event.width, height |-> event.height]]
              [] event.type = "Geometry" /\ event.known ->
                    [outs EXCEPT ![i].transform = event.transform]
              [] event.type = "Scale" -> outs
              [] event.type = "Done" -> outs
              [] OTHER -> outs

\* A handler that takes an index past the end for the last output.
XdgOutputEvent_ClampsIndex(outs, index, event) ==
    LET i == IF index < Len(outs) THEN index + 1 ELSE Len(outs)
    IN IF i = 0 THEN outs
       ELSE CASE event.type = "LogicalPosition" ->
                    [outs EXCEPT ![i].logical_region.position =
                        [x |-> event.x, y |-> event.y]]
              [] event.type = "LogicalSize" ->
                    [outs EXCEPT ![i].logical_region.size =
                        [width |-> event.width, height |-> event.height]]
              [] OTHER -> outs

\* A handler that writes a whole new region on LogicalPosition.
XdgOutputEvent_PositionResetsSize(outs, index, event) ==
    IF index >= Len(outs) THEN outs
    ELSE CASE event.type = "LogicalPosition" ->
                 [outs EXCEPT ![index + 1].logical_region =
                     [position |-> [x |-> event.x, y |-> event.y],
                      size |-> DefaultSize]]
           [] event.type = "LogicalSize" ->
                 [outs EXCEPT ![index + 1].logical_region.size =
                     [width |-> event.width, height |-> event.height]]
           [] OTHER -> outs

\* Dispatch<ZxdgOutputV1, usize>::event: the new output list. index counts
\* from 0, as state.outputs.get_mut(*index) does.
XdgOutputEvent(outs, index, event) ==
    IF index >= Len(outs) THEN outs
    ELSE CASE event.type = "LogicalPosition" ->
                 [outs EXCEPT ![index + 1].logical_region.position =
                     [x |-> event.x, y |-> event.y]]
           [] event.type = "LogicalSize" ->
                 [outs EXCEPT ![index + 1].logical_region.size =
                     [width |-> event.width, height |-> event.height]]
           [] event.type = "Done" -> outs
           [] event.type = "Name" -> outs
           [] event.type = "Description" -> outs
           [] OTHER -> outs

\* The registry events delivered while the outputs are followed.
OutputAdverts ==
    { e \in RegistryEvents :
        /\ e.name = 1
        /\ \/ e.type = "GlobalRemove"
           \/ e.interface = "wl_output" /\ e.version \in {3, 4} }

AdvertiseOutput ==
    /\ Len(globalLog) < MaxAdverts
    /\ \E event \in OutputAdverts :
         /\ outputs' = RegistryEvent(outputs, event, Len(globalLog) + 1)
         /\ globalLog' = Append(globalLog, event)
    /\ UNCHANGED outputEventVars

\* One event of a wl_output is dispatched to the handler.
DispatchWlOutputEvent ==
    /\ nOutputEvents < MaxOutputEvents
    /\ \E event \in WlOutputEvents,
          wl_output \in {outputs[i].wl_output : i \in 1..Len(outputs)}
                         \cup {ForeignProxy} :
         /\ outputs' = WlOutputEvent(outputs, wl_output, event)
         /\ lastOutputEvent' = [iface |-> "wl_output", proxy |-> wl_output,
                                index |-> 0, ev |-> event]
    /\ nOutputEvents' = nOutputEvents + 1
    /\ UNCHANGED <<globalLog, undone, listed, listedUndone, hasListed>>

\* One event of a zxdg_output_v1 is dispatched to the handler; its user data
\* is the index given when the object was created.
DispatchXdgOutputEvent ==
    /\ nOutputEvents < MaxOutputEvents
    /\ \E event \in XdgOutputEvents, index \in 0..Len(outputs) :
         /\ outputs' = XdgOutputEvent(outputs, index, event)
         /\ lastOutputEvent' = [iface |-> "zxdg_output_v1", proxy |-> NoProxy,
                                index |-> index, ev |-> event]
         /\ undone' =
               IF index >= Len(outputs) THEN undone
               ELSE IF event.type \in {"LogicalPosition", "LogicalSize"}
                    THEN undone \cup {index}
               ELSE IF event.type = "Done" THEN undone \ {index}
               ELSE undone
    /\ nOutputEvents' = nOutputEvents + 1
    /\ UNCHANGED <<globalLog, listed, listedUndone, hasListed>>

\* list_outputs(): the caller is handed the outputs as the handlers left them.
ListOutputs ==
    /\ ~hasListed
    /\ hasListed' = TRUE
    /\ listed' = outputs
    /\ listedUndone' = undone
    /\ UNCHANGED <<outputs, globalLog, lastOutputEvent, nOutputEvents, undone>>

\* ------------------------------------------------------------------ pixel format converters

\* Iterator::flatten().collect() over a sequence of arrays.
RECURSIVE Flatten(_)
Flatten(ss) ==
    IF ss = <<>> THEN <<>> ELSE Head(ss) \o Flatten(Tail(ss))

\* slice::chunks_exact(4): the complete 4-byte chunks; a remainder of fewer
\* than 4 bytes is left out.
ChunksExact4(data) ==
    [i \in 1..(Len(data) \div 4) |-> SubSeq(data, 4 * (i - 1) + 1, 4 * i)]

\* slice::to_vec(): a copy of the bytes.
ToVec(data) == [i \in 1..Len(data) |-> data[i]]

\* An ABGR8 converter that swaps bytes 0 and 2 of every complete pixel.
abgr8888_to_rgba8_Swapping(data) ==
    Flatten([i \in 1..(Len(data) \div 4) |->
                LET c == ChunksExact4(data)[i]
                IN <<c[3], c[2], c[1], c[4]>>])

\* pub fn abgr8888_to_rgba8(data: &[u8]) -> Vec<u8>
abgr8888_to_rgba8(data) == ToVec(data)

\* An ARGB8 converter that copies the complete pixels without the swap.
argb8888_to_rgba8_NoSwap(data) ==
    Flatten(ChunksExact4(data))

\* An ARGB8 converter that swaps and forces the fourth byte to opaque.
argb8888_to_rgba8_Opaque(data) ==
    Flatten([i \in 1..(Len(data) \div 4) |->
                LET c == ChunksExact4(data)[i]
                IN <<c[3], c[2], c[1], 255>>])

\* pub fn argb8888_to_rgba8(data: &[u8]) -> Vec<u8>
\* (chunk[0..3] of the source are c[1..4] here)
argb8888_to_rgba8(data) ==
    Flatten([i \in 1..(Len(data) \div 4) |->
                LET c == ChunksExact4(data)[i]
                IN <<c[3], c[2], c[1], c[4]>>])

\* pub fn bgr888_to_rgb8(data: &[u8]) -> Vec<u8>
bgr888_to_rgb8(data) == ToVec(data)

\* ---- 32-bit words as bit vectors (bit 0 is the least significant)
RECURSIVE Pow2(_)
Pow2(n) == IF n = 0 THEN 1 ELSE 2 * Pow2(n - 1)

BitOf(n, i) == (n \div Pow2(i)) % 2

\* u32::from_le_bytes(chunk): byte k (from 0) holds bits 8k .. 8k+7.
from_le_bytes(c) == [i \in 0..31 |-> BitOf(c[(i \div 8) + 1], i % 8)]

\* The literal whose bits lo..hi are set: 0xC0000000 is BitsSet(30, 31).
BitsSet(lo, hi) == [i \in 0..31 |-> IF lo <= i /\ i <= hi THEN 1 ELSE 0]

\* p & m, p >> k and p << k on u32 (a left shift drops what leaves bit 31).
BitAnd(p, m) == [i \in 0..31 |-> p[i] * m[i]]
Shr(p, k) == [i \in 0..31 |-> IF i + k <= 31 THEN p[i + k] ELSE 0]
Shl(p, k) == [i \in 0..31 |-> IF i >= k THEN p[i - k] ELSE 0]

\* `as u16`: the low 16 bits, as a number.
RECURSIVE LowBits(_, _)
LowBits(p, n) ==
    IF n = 0 THEN 0 ELSE LowBits(p, n - 1) + p[n - 1] * Pow2(n - 1)

as_u16(p) == LowBits(p, 16)

\* A pixel conversion that emits the channels in the order (R,G,B,A).
pixel_abgr2101010_to_rgba16_RgbaOrder(c) ==
    LET pixel == from_le_bytes(c)
        a2 == Shr(BitAnd(pixel, BitsSet(30, 31)), 30)
        b10 == Shr(BitAnd(pixel, BitsSet(20, 29)), 20)
        g10 == Shr(BitAnd(pixel, BitsSet(10, 19)), 10)
        r10 == BitAnd(pixel, BitsSet(0, 9))
    IN << as_u16(Shl(r10, 6)), as_u16(Shl(g10, 6)),
          as_u16(Shl(b10, 6)), as_u16(Shl(a2, 14)) >>

\* fn pixel_abgr2101010_to_rgba16(chunk: &[u8; 4]) -> [u16; 4]
pixel_abgr2101010_to_rgba16(c) ==
    LET pixel == from_le_bytes(c)
        a2 == Shr(BitAnd(pixel, BitsSet(30, 31)), 30)
        b10 == Shr(BitAnd(pixel, BitsSet(20, 29)), 20)
        g10 == Shr(BitAnd(pixel, BitsSet(10, 19)), 10)
        r10 == BitAnd(pixel, BitsSet(0, 9))
    IN << as_u16(Shl(a2, 14)), as_u16(Shl(r10, 6)),
          as_u16(Shl(g10, 6)), as_u16(Shl(b10, 6)) >>

\* pub fn abgr2101010_to_rgba16(data: &[u8]) -> Vec<u16>
abgr2101010_to_rgba16(data) ==
    Flatten([i \in 1..(Len(data) \div 4) |->
                pixel_abgr2101010_to_rgba16(ChunksExact4(data)[i])])

\* ------------------------------------------------------------------ frame to image

\* A from_vec that wants more subpixels than the image has.
FromVec_Strict(channels, width, height, buf) ==
    IF channels * width * height < Len(buf)
    THEN [some |-> TRUE, width |-> width, height |-> height, buf |-> buf]
    ELSE [some |-> FALSE, width |-> 0, height |-> 0, buf |-> <<>>]

\* ImageBuffer::from_vec(width, height, buf) for a pixel type of `channels`
\* subpixels: None unless buf holds at least channels * width * height of them.
FromVec(channels, width, height, buf) ==
    IF channels * width * height <= Len(buf)
    THEN [some |-> TRUE, width |-> width, height |-> height, buf |-> buf]
    ELSE [some |-> FALSE, width |-> 0, height |-> 0, buf |-> <<>>]

Ok(tag, img) ==
    [tag |-> tag, err |-> "none", width |-> img.width, height |-> img.height,
     buf |-> img.buf]
Err(e) == [tag |-> "Err", err |-> e, width |-> 0, height |-> 0, buf |-> <<>>]

\* .ok_or(Error::BufferTooSmall)? followed by Ok(Self::<tag>(imgbuf))
OkOr(tag, img) == IF img.some THEN Ok(tag, img) ELSE Err("BufferTooSmall")

\* A conversion that hands the bytes of any format on as RGBA8.
TryFrom_PassThrough(value) ==
    OkOr("ImageRgba8", FromVec(4, value.width, value.height, ToVec(value.data)))

\* impl TryFrom<&FrameCopy> for DynamicImage
TryFrom(value) ==
    LET format == value.format
        width == value.width
        height == value.height
        data == value.data
    IN CASE format = "Bgr888" ->
              OkOr("ImageRgb8", FromVec(3, width, height, bgr888_to_rgb8(data)))
         [] format \in {"Xbgr8888", "Abgr8888"} ->
              OkOr("ImageRgba8", FromVec(4, width, height, abgr8888_to_rgba8(data)))
         [] format \in {"Xrgb8888", "Argb8888"} ->
              OkOr("ImageRgba8", FromVec(4, width, height, argb8888_to_rgba8(data)))
         [] format \in {"Xbgr2101010", "Abgr2101010"} ->
              OkOr("ImageRgba16", FromVec(4, width, height, abgr2101010_to_rgba16(data)))
         [] OTHER -> Err("NoSupportedBufferFormat")

\* ---- the frames and buffers the conversions are applied to
FormatTags ==
    {"Bgr888", "Xbgr8888", "Abgr8888", "Xrgb8888", "Argb8888",
     "Xbgr2101010", "Abgr2101010", "Rgb565", "Rgba8888"}

Pixels == { <<16, 32, 48, 255>>, <<1, 2, 3, 4>> }
Tails == { <<>>, <<170>>, <<170, 187>>, <<170, 187, 204>> }

\* Up to MaxPixels complete pixels followed by up to three more bytes.
Buffers ==
    { Flatten(ps) \o t :
        ps \in UNION { [1..k -> Pixels] : k \in 0..MaxPixels }, t \in Tails }

Frames ==
    { [format |-> f, width |-> w, height |-> h, stride |-> 4 * w + pad, data |-> d] :
        f \in FormatTags, w \in 1..MaxDim, h \in 1..MaxDim, pad \in {0, 4},
        d \in Buffers }

NothingApplied == conv.fn = "none" /\ result.tag = "none"

Apply_bgr888_to_rgb8 ==
    /\ NothingApplied
    /\ conv' = [fn |-> "bgr888_to_rgb8", out |-> bgr888_to_rgb8(frame.data)]
    /\ UNCHANGED <<frame, result>>

Apply_abgr8888_to_rgba8 ==
    /\ NothingApplied
    /\ conv' = [fn |-> "abgr8888_to_rgba8", out |-> abgr8888_to_rgba8(frame.data)]
    /\ UNCHANGED <<frame, result>>

Apply_argb8888_to_rgba8 ==
    /\ NothingApplied
    /\ conv' = [fn |-> "argb8888_to_rgba8", out |-> argb8888_to_rgba8(frame.data)]
    /\ UNCHANGED <<frame, result>>

Apply_abgr2101010_to_rgba16 ==
    /\ NothingApplied
    /\ conv' = [fn |-> "abgr2101010_to_rgba16", out |-> abgr2101010_to_rgba16(frame.data)]
    /\ UNCHANGED <<frame, result>>

ApplyTryFrom ==
    /\ NothingApplied
    /\ result' = TryFrom(frame)
    /\ UNCHANGED <<frame, conv>>

\* ---- one packed pixel
PixelBytes == {0, 1, 3, 63, 64, 192, 252, 255}

ApplyPixel ==
    /\ rgba16 = <<>>
    /\ rgba16' = pixel_abgr2101010_to_rgba16(chunk)
    /\ UNCHANGED chunk

\* ------------------------------------------------------------------ FrameFormat::byte_size

\* Unsigned integers are sequences of bytes, lowest first: four for a u32,
\* eight for a u64.
Zeros(n) == [i \in 1..n |-> 0]

\* `x as u64` for a u32 x: the value, in eight bytes.
as_u64(x) == x \o Zeros(4)

\* The sum of a[i] * b[j] over the byte positions i + j = k (from 0).
RECURSIVE ColumnSum(_, _, _, _)
ColumnSum(a, b, k, i) ==
    IF i > k THEN 0
    ELSE (IF i < Len(a) /\ k - i < Len(b) THEN a[i + 1] * b[k - i + 1] ELSE 0)
         + ColumnSum(a, b, k, i + 1)

\* Column k of the long multiplication with the carry of the columns below.
RECURSIVE ColumnTotal(_, _, _)
ColumnTotal(a, b, k) ==
    ColumnSum(a, b, k, 0)
      + (IF k = 0 THEN 0 ELSE ColumnTotal(a, b, k - 1) \div 256)

\* All the bytes of a * b, as many as a and b have together.
WideProduct(a, b) ==
    [k \in 1..(Len(a) + Len(b)) |-> ColumnTotal(a, b, k - 1) % 256]

\* a * b in an unsigned type of n bytes: the low n bytes of the product, and
\* whether a higher byte was lost (a panic where overflow checks are
\* compiled in, a wrapped value where they are not).
Mul(a, b, n) ==
    LET wide == WideProduct(a, b)
    IN [called |-> TRUE,
        value |-> SubSeq(wide, 1, n),
        overflow |-> \E k \in (n + 1)..Len(wide) : wide[k] # 0]

\* A byte_size that multiplies in u32 and widens the product.
byte_size_In32Bits(self) ==
    LET product == Mul(self.stride, self.height, 4)
    IN [product EXCEPT !.value = as_u64(@)]

\* pub fn byte_size(&self) -> u64
byte_size(self) == Mul(as_u64(self.stride), as_u64(self.height), 8)

\* The strides and heights byte_size is applied to, up to 2^32 - 1.
Strides == [1..4 -> {0, 1, 128, 255}]
Heights == [1..4 -> {0, 1, 255}]

ApplyByteSize ==
    /\ ~byte_size_ret.called
    /\ byte_size_ret' = byte_size([stride |-> self_stride, height |-> self_height])
    /\ UNCHANGED <<self_stride, self_height>>

\* ------------------------------------------------------------------ create_shm_fd

\* What the OS may answer to each call (Ok, or an errno).
MemfdResults == {"Ok", "EINTR", "ENOSYS", "EMFILE", "ENFILE", "ENOMEM"}
ShmOpenResults == {"Ok", "EEXIST", "EINTR", "EACCES", "EMFILE", "ENFILE"}
UnlinkResults == {"Ok", "EACCES", "ENOENT"}
CloseResults == {"Ok", "EIO", "EINTR"}
FcntlResults == {"Ok", "EINVAL", "EPERM", "EBUSY"}

\* get_mem_file_handle(): "/libwayshot-<subsec nanos>", one of a few names.
Handles == {"/libwayshot-1", "/libwayshot-2", "/libwayshot-3"}

\* A descriptor: what it was opened as, under which name, and whether the
\* seals F_SEAL_SHRINK | F_SEAL_SEAL are on it.
NoFd == [kind |-> "none", name |-> "", seals |-> FALSE]
MemFd == [kind |-> "memfd", name |-> "libwayshot", seals |-> FALSE]
ShmFd(handle) == [kind |-> "shm", name |-> handle, seals |-> FALSE]
Sealed(fd) == [fd EXCEPT !.seals = TRUE]

NotReturned == [ok |-> FALSE, fd |-> NoFd, errno |-> "none"]
RetOk(fd) == [ok |-> TRUE, fd |-> fd, errno |-> "none"]
RetErr(errno) == [ok |-> FALSE, fd |-> NoFd, errno |-> errno]

NoCall == [call |-> "none", handle |-> "", gen |-> 0, res |-> "none"]

\* A memfd loop that leaves for the named fallback on every error.
memfd_create_FallbackOnAnyError(st, res, fresh) ==
    CASE res = "Ok" -> [st EXCEPT !.pc = "fcntl", !.fds = @ \cup {MemFd}]
      [] res = "EINTR" -> st
      [] OTHER -> [st EXCEPT !.pc = "shm_open", !.handle = fresh, !.gen = 1 - @]

\* One round of the memfd loop of create_shm_fd: the call answered res;
\* fresh is the name get_mem_file_handle() gives if the loop is left.
memfd_create(st, res, fresh) ==
    CASE res = "Ok" -> [st EXCEPT !.pc = "fcntl", !.fds = @ \cup {MemFd}]
      [] res = "EINTR" -> st
      [] res = "ENOSYS" ->
            [st EXCEPT !.pc = "shm_open", !.handle = fresh, !.gen = 1 - @]
      [] OTHER -> [st EXCEPT !.pc = "returned", !.ret = RetErr(res)]

\* let _ = fcntl(fd, F_ADD_SEALS(..)); return Ok(fd): the call answered res.
\* The seals are on the descriptor if it succeeded; its error is dropped.
fcntl(st, res) ==
    LET fd == IF res = "Ok" THEN Sealed(MemFd) ELSE MemFd
    IN [st EXCEPT !.pc = "returned", !.ret = RetOk(fd),
                  !.fds = (@ \ {MemFd}) \cup {fd}]

\* One call of shm_open in the fallback loop of create_shm_fd: it answered
\* res; fresh is the name get_mem_file_handle() gives after a collision.
shm_open(st, res, fresh) ==
    CASE res = "Ok" ->
            [st EXCEPT !.pc = "shm_unlink",
                       !.fds = @ \cup {ShmFd(st.handle)},
                       !.linked = @ \cup {st.handle}]
      [] res = "EEXIST" -> [st EXCEPT !.handle = fresh, !.gen = 1 - @]
      [] res = "EINTR" -> st
      [] OTHER -> [st EXCEPT !.pc = "returned", !.ret = RetErr(res)]

\* An unlink arm that returns the error at once, the descriptor left open.
shm_unlink_NoClose(st, res) ==
    IF res = "Ok"
    THEN [st EXCEPT !.pc = "returned", !.ret = RetOk(ShmFd(st.handle)),
                    !.linked = @ \ {st.handle}]
    ELSE [st EXCEPT !.pc = "returned", !.ret = RetErr(res)]

\* shm_unlink(mem_file_handle) after a successful shm_open: it answered res.
shm_unlink(st, res) ==
    IF res = "Ok"
    THEN [st EXCEPT !.pc = "returned", !.ret = RetOk(ShmFd(st.handle)),
                    !.linked = @ \ {st.handle}]
    ELSE [st EXCEPT !.pc = "close", !.errno = res]

\* unistd::close(fd.into_raw_fd()) after a failed shm_unlink: it answered res.
\* The descriptor is released whatever close answers.
close(st, res) ==
    [st EXCEPT !.pc = "returned",
               !.fds = @ \ {ShmFd(st.handle)},
               !.ret = IF res = "Ok" THEN RetErr(st.errno) ELSE RetErr(res)]

ShmState ==
    [pc |-> shm_pc, handle |-> mem_file_handle, gen |-> handle_gen, ret |-> shm_ret,
     fds |-> open_fds, linked |-> linked, errno |-> unlink_errno]

SetShmState(st) ==
    /\ shm_pc' = st.pc
    /\ mem_file_handle' = st.handle
    /\ handle_gen' = st.gen
    /\ shm_ret' = st.ret
    /\ open_fds' = st.fds
    /\ linked' = st.linked
    /\ unlink_errno' = st.errno

\* The record of a call: the name and the name parity before it, the answer.
Called(call, res) ==
    [call |-> call, handle |-> mem_file_handle, gen |-> handle_gen, res |-> res]

\* memfd_create is called once.
CallMemfdCreate ==
    /\ shm_pc = "memfd_create"
    /\ \E res \in MemfdResults, fresh \in Handles :
         /\ SetShmState(memfd_create(ShmState, res, fresh))
         /\ lastCall' = Called("memfd_create", res)
    /\ tick' = 1 - tick

\* fcntl is called on the descriptor memfd_create gave.
CallFcntl ==
    /\ shm_pc = "fcntl"
    /\ \E res \in FcntlResults :
         /\ SetShmState(fcntl(ShmState, res))
         /\ lastCall' = Called("fcntl", res)
    /\ UNCHANGED tick

\* shm_open is called once.
CallShmOpen ==
    /\ shm_pc = "shm_open"
    /\ \E res \in ShmOpenResults, fresh \in Handles :
         /\ SetShmState(shm_open(ShmState, res, fresh))
         /\ lastCall' = Called("shm_open", res)
    /\ tick' = 1 - tick

\* shm_unlink is called.
CallShmUnlink ==
    /\ shm_pc = "shm_unlink"
    /\ \E res \in UnlinkResults :
         /\ SetShmState(shm_unlink(ShmState, res))
         /\ lastCall' = Called("shm_unlink", res)
    /\ UNCHANGED tick

\* close is called.
CallClose ==
    /\ shm_pc = "close"
    /\ \E res \in CloseResults :
         /\ SetShmState(close(ShmState, res))
         /\ lastCall' = Called("close", res)
    /\ UNCHANGED tick

\* ------------------------------------------------------------------ specifications

InitCapture ==
    /\ formats = <<>>
    /\ state = Pending
    /\ buffer_done = FALSE
    /\ phase = "Idle"
    /\ session = 0
    /\ guards = {}
    /\ live = {}
    /\ created = {}
    /\ destroyLog = <<>>
    /\ outcome = "none"
    /\ lastEvent = FrameEv("none")
    /\ terminalSeen = FALSE

InitRegistry ==
    /\ outputs = <<>>
    /\ globalLog = <<>>
    /\ lastOutputEvent = [iface |-> "none", proxy |-> NoProxy, index |-> 0,
                          ev |-> OutEv("none")]
    /\ nOutputEvents = 0
    /\ undone = {}
    /\ listed = <<>>
    /\ listedUndone = {}
    /\ hasListed = FALSE

NoFrame == [format |-> "none", width |-> 0, height |-> 0, stride |-> 0, data |-> <<>>]
NoConv == [fn |-> "none", out |-> <<>>]
NoResult == [tag |-> "none", err |-> "none", width |-> 0, height |-> 0, buf |-> <<>>]

IdleConvert ==
    /\ frame = NoFrame
    /\ conv = NoConv
    /\ result = NoResult

IdlePixel ==
    /\ chunk = <<0, 0, 0, 0>>
    /\ rgba16 = <<>>

IdleShm ==
    /\ shm_pc = "idle"
    /\ mem_file_handle = ""
    /\ handle_gen = 0
    /\ shm_ret = NotReturned
    /\ open_fds = {}
    /\ linked = {}
    /\ unlink_errno = "none"
    /\ lastCall = NoCall
    /\ tick = 0

NotCalled == [called |-> FALSE, value |-> <<>>, overflow |-> FALSE]

IdleByteSize ==
    /\ self_stride = <<0, 0, 0, 0>>
    /\ self_height = <<0, 0, 0, 0>>
    /\ byte_size_ret = NotCalled

\* LayerShellState as the session builds it: no output configured yet.
InitLayer ==
    /\ configured_outputs = {}
    /\ acks = <<>>
    /\ layerLog = <<>>

\* The capture session.
Init == InitCapture /\ InitRegistry /\ IdleConvert /\ IdlePixel /\ IdleShm /\ InitLayer
    /\ IdleByteSize

Next ==
    \/ Begin /\ UNCHANGED <<registryVars, convertVars, pixelVars, shmVars, layerVars, byteSizeVars>>
    \/ DispatchFrameEvent /\ UNCHANGED <<registryVars, convertVars, pixelVars, shmVars, layerVars, byteSizeVars>>
    \/ Negotiated /\ UNCHANGED <<registryVars, convertVars, pixelVars, shmVars, layerVars, byteSizeVars>>
    \/ AllocateAndCopy /\ UNCHANGED <<registryVars, convertVars, pixelVars, shmVars, layerVars, byteSizeVars>>
    \/ Finish /\ UNCHANGED <<registryVars, convertVars, pixelVars, shmVars, layerVars, byteSizeVars>>
    \/ Discard /\ UNCHANGED <<registryVars, convertVars, pixelVars, shmVars, layerVars, byteSizeVars>>

Spec == Init /\ [][Next]_vars

\* The output registry.
NextRegistry ==
    DispatchRegistryEvent /\ UNCHANGED <<captureVars, convertVars, pixelVars, shmVars, layerVars, byteSizeVars>>

SpecRegistry == Init /\ [][NextRegistry]_vars

\* The outputs: a few are advertised, their events arrive, list_outputs is
\* called at some point.
NextOutputs ==
    \/ AdvertiseOutput /\ UNCHANGED <<captureVars, convertVars, pixelVars, shmVars, layerVars, byteSizeVars>>
    \/ DispatchWlOutputEvent /\ UNCHANGED <<captureVars, convertVars, pixelVars, shmVars, layerVars, byteSizeVars>>
    \/ DispatchXdgOutputEvent /\ UNCHANGED <<captureVars, convertVars, pixelVars, shmVars, layerVars, byteSizeVars>>
    \/ ListOutputs /\ UNCHANGED <<captureVars, convertVars, pixelVars, shmVars, layerVars, byteSizeVars>>

SpecOutputs == Init /\ [][NextOutputs]_vars

\* The overlay surfaces: their events arrive in any order.
NextLayer ==
    DispatchLayerSurfaceEvent
        /\ UNCHANGED <<captureVars, registryVars, convertVars, pixelVars, shmVars,
                       byteSizeVars>>

SpecLayer == Init /\ [][NextLayer]_vars

\* The conversions, applied to every frame of Frames.
ConvertInputs ==
    /\ frame \in Frames
    /\ conv = NoConv
    /\ result = NoResult

InitConvert == InitCapture /\ InitRegistry /\ ConvertInputs /\ IdlePixel /\ IdleShm /\ InitLayer
    /\ IdleByteSize

NextConvert ==
    \/ Apply_bgr888_to_rgb8 /\ UNCHANGED <<captureVars, registryVars, pixelVars, shmVars, layerVars, byteSizeVars>>
    \/ Apply_abgr8888_to_rgba8 /\ UNCHANGED <<captureVars, registryVars, pixelVars, shmVars, layerVars, byteSizeVars>>
    \/ Apply_argb8888_to_rgba8 /\ UNCHANGED <<captureVars, registryVars, pixelVars, shmVars, layerVars, byteSizeVars>>
    \/ Apply_abgr2101010_to_rgba16 /\ UNCHANGED <<captureVars, registryVars, pixelVars, shmVars, layerVars, byteSizeVars>>
    \/ ApplyTryFrom /\ UNCHANGED <<captureVars, registryVars, pixelVars, shmVars, layerVars, byteSizeVars>>

SpecConvert == InitConvert /\ [][NextConvert]_vars

\* The conversion of one packed pixel, applied to every chunk over PixelBytes.
PixelInputs ==
    /\ chunk \in [1..4 -> PixelBytes]
    /\ rgba16 = <<>>

InitPixel == InitCapture /\ InitRegistry /\ IdleConvert /\ PixelInputs /\ IdleShm /\ InitLayer
    /\ IdleByteSize

NextPixel ==
    ApplyPixel /\ UNCHANGED <<captureVars, registryVars, convertVars, shmVars, layerVars, byteSizeVars>>

SpecPixel == InitPixel /\ [][NextPixel]_vars

\* create_shm_fd, called once. Where memfd is compiled in (linux, freebsd) it
\* starts with memfd_create, elsewhere with shm_open under a first name. The
\* function makes its next call whenever it has not returned.
ShmStart ==
    /\ \/ shm_pc = "memfd_create" /\ mem_file_handle = "" /\ handle_gen = 0
       \/ shm_pc = "shm_open" /\ mem_file_handle \in Handles /\ handle_gen = 1
    /\ shm_ret = NotReturned
    /\ open_fds = {}
    /\ linked = {}
    /\ unlink_errno = "none"
    /\ lastCall = NoCall
    /\ tick = 0

InitShm == InitCapture /\ InitRegistry /\ IdleConvert /\ IdlePixel /\ ShmStart /\ InitLayer
    /\ IdleByteSize

NextShm ==
    \/ CallMemfdCreate /\ UNCHANGED <<captureVars, registryVars, convertVars, pixelVars, layerVars, byteSizeVars>>
    \/ CallFcntl /\ UNCHANGED <<captureVars, registryVars, convertVars, pixelVars, layerVars, byteSizeVars>>
    \/ CallShmOpen /\ UNCHANGED <<captureVars, registryVars, convertVars, pixelVars, layerVars, byteSizeVars>>
    \/ CallShmUnlink /\ UNCHANGED <<captureVars, registryVars, convertVars, pixelVars, layerVars, byteSizeVars>>
    \/ CallClose /\ UNCHANGED <<captureVars, registryVars, convertVars, pixelVars, layerVars, byteSizeVars>>

SpecShm == InitShm /\ [][NextShm]_vars /\ WF_vars(NextShm)

\* byte_size, applied to every stride of Strides and height of Heights.
ByteSizeInputs ==
    /\ self_stride \in Strides
    /\ self_height \in Heights
    /\ byte_size_ret = NotCalled

InitByteSize ==
    InitCapture /\ InitRegistry /\ IdleConvert /\ IdlePixel /\ IdleShm /\ InitLayer
    /\ ByteSizeInputs

NextByteSize ==
    ApplyByteSize
        /\ UNCHANGED <<captureVars, registryVars, convertVars, pixelVars, shmVars,
                       layerVars>>

SpecByteSize == InitByteSize /\ [][NextByteSize]_vars

\* ------------------------------------------------------------------ claims: capture session

\* The copy of the current session has been requested.
CopyRequested == BufferOf(session) \in created

\* The sessions that have been discarded.
DiscardedSessions ==
    { s \in 1..session : s < session \/ phase = "Discarded" }

\* How often obj occurs in the destroy log, and where.
DestroyCount(obj) == Cardinality({ i \in 1..Len(destroyLog) : destroyLog[i] = obj })
DestroyIndex(obj) == CHOOSE i \in 1..Len(destroyLog) : destroyLog[i] = obj

\* C1: within one capture session the capture state leaves Pending at most
\* once: once it is Finished or Failed, no later frame event changes it.
C1_StateLeavesPendingOnce ==
    [][(session' = session /\ state # Pending) => state' = state]_vars

\* C2: whenever the capture state is Finished or Failed, BufferDone has been
\* received and the copy has been requested; and the session is past the
\* negotiation only if BufferDone has been received.
C2_SessionOrder ==
    /\ state \in {Finished, Failed} => (buffer_done /\ CopyRequested)
    /\ phase \in {"BufferNegotiated", "CopyRequested", "Resolved"} => buffer_done

Irrelevant(event) ==
    \/ event.type \in {"Damage", "LinuxDmabuf", "Flags", "Unknown"}
    \/ event.type = "Buffer" /\ ~event.known

\* C14: the handler, called with an event the session has no use for, leaves
\* the format list, the negotiation flag and the capture state as they were
\* and the session where it was; and a session that was delivered neither
\* Ready nor Failed is Pending.
C14_IrrelevantEventsIgnored ==
    /\ [](~terminalSeen => state = Pending)
    /\ [][(phase' = phase /\ session' = session /\ Irrelevant(lastEvent')) =>
             UNCHANGED <<formats, buffer_done, state>>]_vars

\* A Buffer event of unidentified format was delivered after a format and
\* BufferDone, the copy requested, the state still Pending.
C14_Witness ==
    /\ lastEvent.type = "Buffer" /\ ~lastEvent.known
    /\ Len(formats) = 1
    /\ buffer_done
    /\ phase = "CopyRequested"
    /\ ~terminalSeen
    /\ state = Pending

\* ------------------------------------------------------------------ claims: output registry

\* The registry events that advertise a wl_output at version 4 or above.
AdvertisedOutputs ==
    { i \in 1..Len(globalLog) :
        /\ globalLog[i].type = "Global"
        /\ globalLog[i].interface = "wl_output"
        /\ globalLog[i].version >= 4 }

\* C4: the output list holds exactly one entry for every Global event that
\* advertised a wl_output at version >= 4, in the order of the events, and
\* nothing for a wl_output below version 4 or for any other interface.
C4_OutputsFromVersion4 ==
    /\ Len(outputs) = Cardinality(AdvertisedOutputs)
    /\ \A k \in 1..Len(outputs) :
          /\ outputs[k].wl_output.nth \in AdvertisedOutputs
          /\ outputs[k].wl_output.global = globalLog[outputs[k].wl_output.nth].name
          /\ \A j \in 1..(k - 1) :
                outputs[j].wl_output.nth < outputs[k].wl_output.nth

\* A wl_output at version 3, a wl_output at version 4 and another interface
\* have been advertised: one output is in the list.
C4_Witness ==
    /\ Len(globalLog) = 3
    /\ \E i, j, k \in 1..3 :
          /\ globalLog[i].interface = "wl_output" /\ globalLog[i].version = 3
          /\ globalLog[j].interface = "wl_output" /\ globalLog[j].version = 4
          /\ globalLog[k].interface = "wl_shm"
    /\ Len(outputs) = 1

\* ------------------------------------------------------------------ claims: conversion

Aligned(data) == Len(data) % 4 = 0

\* The complete pixels of data, numbered from 0.
PixelIndices(data) == 0..((Len(data) \div 4) - 1)

\* out holds, for every complete pixel of data, that pixel with bytes 0 and 2
\* exchanged and bytes 1 and 3 kept.
SwapsZeroAndTwo(data, out) ==
    /\ Len(out) = 4 * (Len(data) \div 4)
    /\ \A p \in PixelIndices(data) :
          /\ out[4 * p + 1] = data[4 * p + 3]
          /\ out[4 * p + 2] = data[4 * p + 2]
          /\ out[4 * p + 3] = data[4 * p + 1]
          /\ out[4 * p + 4] = data[4 * p + 4]

\* Bytes with positions 0 and 2 of every pixel exchanged.
SwapBack(bytes) ==
    [i \in 1..Len(bytes) |->
        IF i % 4 = 1 THEN bytes[i + 2]
        ELSE IF i % 4 = 3 THEN bytes[i - 2]
        ELSE bytes[i]]

\* C5: a buffer whose length is not a multiple of 4 is rejected by every
\* conversion: it reports failure and emits no output.
C5_MisalignedRejected ==
    ~Aligned(frame.data) =>
        /\ result.tag \in {"none", "Err"}
        /\ conv.fn # "none" => conv.out = <<>>

\* C6: a frame tagged Xrgb8888 with stride 4 x width and stride x height
\* mapped bytes converts to an RGBA8 image of width x height pixels, each
\* source pixel [b0,b1,b2,b3] becoming [b2,b1,b0,b3] at the same position.
C6_XrgbToRgba ==
    ( /\ result.tag # "none"
      /\ frame.format = "Xrgb8888"
      /\ frame.stride = 4 * frame.width
      /\ Len(frame.data) = frame.stride * frame.height ) =>
        /\ result.tag = "ImageRgba8"
        /\ result.width = frame.width
        /\ result.height = frame.height
        /\ Len(result.buf) = 4 * frame.width * frame.height
        /\ SwapsZeroAndTwo(frame.data, result.buf)

\* A 2 x 1 Xrgb8888 frame whose first pixel is [0x10,0x20,0x30,0xFF] was
\* converted: the image's first pixel is [0x30,0x20,0x10,0xFF].
C6_Witness ==
    /\ frame.format = "Xrgb8888"
    /\ frame.width = 2 /\ frame.height = 1 /\ frame.stride = 8
    /\ frame.data = <<16, 32, 48, 255, 1, 2, 3, 4>>
    /\ result.tag = "ImageRgba8"
    /\ SubSeq(result.buf, 1, 4) = <<48, 32, 16, 255>>

\* C7 as stated: the ABGR8->RGBA8 converter swaps bytes 0 and 2 of every pixel
\* of an aligned input and keeps bytes 1 and 3; BGR8->RGB8 returns a copy.
C7_AbgrSwaps ==
    /\ (conv.fn = "abgr8888_to_rgba8" /\ Aligned(frame.data)) =>
          SwapsZeroAndTwo(frame.data, conv.out)
    /\ conv.fn = "bgr888_to_rgb8" => conv.out = frame.data

\* C7 as amended: the ABGR8->RGBA8 converter and the BGR8->RGB8 converter both
\* return a byte-for-byte copy of their input; the converter that swaps bytes
\* 0 and 2 of every pixel of an aligned input, keeping 1 and 3, is ARGB8->RGBA8.
C7_AbgrCopiesArgbSwaps ==
    /\ conv.fn = "abgr8888_to_rgba8" => conv.out = frame.data
    /\ conv.fn = "bgr888_to_rgb8" => conv.out = frame.data
    /\ (conv.fn = "argb8888_to_rgba8" /\ Aligned(frame.data)) =>
          SwapsZeroAndTwo(frame.data, conv.out)

\* The ABGR8->RGBA8 converter was applied to two pixels whose bytes 0 and 2
\* differ.
C7_Witness ==
    /\ conv.fn = "abgr8888_to_rgba8"
    /\ frame.data = <<16, 32, 48, 255, 1, 2, 3, 4>>
    /\ conv.out = <<16, 32, 48, 255, 1, 2, 3, 4>>

\* C8 as stated: ABGR8->RGBA8 followed by the 0/2 swap gives back an aligned
\* input.
C8_AbgrRoundTrip ==
    (conv.fn = "abgr8888_to_rgba8" /\ Aligned(frame.data)) =>
        SwapBack(conv.out) = frame.data

\* C8 as amended: ARGB8->RGBA8 followed by the 0/2 swap gives back an aligned
\* input, byte for byte and of the same length.
C8_ArgbRoundTrip ==
    (conv.fn = "argb8888_to_rgba8" /\ Aligned(frame.data)) =>
        /\ Len(conv.out) = Len(frame.data)
        /\ SwapBack(conv.out) = frame.data

\* The ARGB8->RGBA8 converter was applied to two pixels and changed them.
C8_Witness ==
    /\ conv.fn = "argb8888_to_rgba8"
    /\ frame.data = <<1, 2, 3, 4, 16, 32, 48, 255>>
    /\ conv.out = <<3, 2, 1, 4, 48, 32, 16, 255>>

\* The tags the conversion recognises, and the kind of image each gives.
RecognisedTags ==
    {"Bgr888", "Xbgr8888", "Abgr8888", "Xrgb8888", "Argb8888",
     "Xbgr2101010", "Abgr2101010"}

ImageKind(tag) ==
    IF tag = "Bgr888" THEN "ImageRgb8"
    ELSE IF tag \in {"Xbgr2101010", "Abgr2101010"} THEN "ImageRgba16"
    ELSE "ImageRgba8"

\* C10: a frame with an unrecognised tag converts to the error
\* NoSupportedBufferFormat and to no image; a frame with a recognised tag
\* converts to the one kind of image of its tag, or fails otherwise than with
\* NoSupportedBufferFormat.
C10_UnrecognisedTagIsError ==
    result.tag # "none" =>
        /\ frame.format \notin RecognisedTags =>
              /\ result.tag = "Err"
              /\ result.err = "NoSupportedBufferFormat"
              /\ result.buf = <<>>
        /\ frame.format \in RecognisedTags =>
              /\ result.err # "NoSupportedBufferFormat"
              /\ result.tag \in {ImageKind(frame.format), "Err"}

\* A frame tagged Rgb565 with enough bytes for its 1 x 1 size was converted.
C10_Witness ==
    /\ frame.format = "Rgb565"
    /\ frame.width = 1 /\ frame.height = 1
    /\ Len(frame.data) = 4
    /\ result.err = "NoSupportedBufferFormat"

\* ------------------------------------------------------------------ claims: packed pixel

\* The channels of a little-endian 2-10-10-10 pixel, from its bytes.
Alpha2(c) == c[4] \div 64
Red10(c) == c[1] + 256 * (c[2] % 4)
Green10(c) == (c[2] \div 4) + 64 * (c[3] % 16)
Blue10(c) == (c[3] \div 16) + 16 * (c[4] % 64)

\* C9: for a 4-byte little-endian pixel, alpha (bits 31-30) is in 0..3 and
\* R (bits 9-0), G (bits 19-10), B (bits 29-20) are in 0..1023; the output is
\* (alpha << 14, R << 6, G << 6, B << 6) in that order, each value fits 16
\* bits and shifts back to its component.
C9_Pixel2101010 ==
    rgba16 # <<>> =>
        /\ Alpha2(chunk) \in 0..3
        /\ {Red10(chunk), Green10(chunk), Blue10(chunk)} \subseteq 0..1023
        /\ rgba16 = << Alpha2(chunk) * 16384, Red10(chunk) * 64,
                       Green10(chunk) * 64, Blue10(chunk) * 64 >>
        /\ \A k \in 1..4 : rgba16[k] \in 0..65535
        /\ rgba16[1] \div 16384 = Alpha2(chunk)
        /\ rgba16[2] \div 64 = Red10(chunk)
        /\ rgba16[3] \div 64 = Green10(chunk)
        /\ rgba16[4] \div 64 = Blue10(chunk)

\* The pixel 0x4003FC01 (alpha 1, B 0, G 255, R 1) was converted.
C9_Witness ==
    /\ chunk = <<1, 252, 3, 64>>
    /\ rgba16 = <<16384, 64, 16320, 0>>

\* ------------------------------------------------------------------ claims: create_shm_fd

CreationCalls == {"memfd_create", "shm_open"}

\* C11: create_shm_fd returns, whatever the OS keeps answering.
C11_CreateShmFdReturns == <>(shm_pc = "returned")

\* The errors no arm of the calling code names: neither the interruption nor,
\* for shm_open, the collision, nor, for memfd_create, the missing primitive.
OtherError(call, res) ==
    /\ res \notin {"Ok", "EINTR"}
    /\ ~(call = "shm_open" /\ res = "EEXIST")
    /\ ~(call = "memfd_create" /\ res = "ENOSYS")

\* After a call of `calls`, by its answer: EINTR - the same call is made
\* again with the same name; EEXIST from shm_open - a new name is generated and
\* shm_open is made again; the fallback is entered from memfd_create on ENOSYS
\* only; any other error - create_shm_fd has returned that error.
Classified(calls) ==
    lastCall.call \in calls =>
        /\ lastCall.res = "EINTR" =>
              /\ shm_pc = lastCall.call
              /\ mem_file_handle = lastCall.handle
              /\ handle_gen = lastCall.gen
        /\ (lastCall.call = "shm_open" /\ lastCall.res = "EEXIST") =>
              /\ shm_pc = "shm_open"
              /\ mem_file_handle \in Handles
              /\ handle_gen = 1 - lastCall.gen
        /\ (lastCall.call = "memfd_create" /\ shm_pc = "shm_open") =>
              lastCall.res = "ENOSYS"
        /\ (lastCall.call = "memfd_create" /\ lastCall.res = "ENOSYS") =>
              shm_pc = "shm_open"
        /\ OtherError(lastCall.call, lastCall.res) =>
              /\ shm_pc = "returned"
              /\ shm_ret = RetErr(lastCall.res)

AllCalls == CreationCalls \cup {"fcntl", "shm_unlink", "close"}

\* C12 as stated: the answer of each OS call of create_shm_fd is classified
\* so: an interrupted call is retried with the same arguments, a collision on
\* the named fallback regenerates the name and retries, the fallback is
\* entered on ENOSYS only, every other error ends the call at once with that
\* error.
C12_EveryCallClassified == Classified(AllCalls)

\* C12 as amended: the two creation calls are classified so; an error of the
\* sealing fcntl is dropped and the descriptor returned; a failed shm_unlink
\* is followed by one close of the descriptor; close is not retried, and
\* after it the error of shm_unlink is returned, or that of close if close
\* failed.
C12_CreationCallsClassified ==
    /\ Classified(CreationCalls)
    /\ lastCall.call = "fcntl" =>
          /\ shm_pc = "returned"
          /\ shm_ret.ok
          /\ shm_ret.fd.kind = "memfd"
          /\ shm_ret.fd.seals = (lastCall.res = "Ok")
          /\ open_fds = {shm_ret.fd}
    /\ (lastCall.call = "shm_unlink" /\ lastCall.res # "Ok") =>
          /\ shm_pc = "close"
          /\ unlink_errno = lastCall.res
          /\ ShmFd(mem_file_handle) \in open_fds
    /\ lastCall.call = "close" =>
          /\ shm_pc = "returned"
          /\ shm_ret = RetErr(IF lastCall.res = "Ok" THEN unlink_errno
                                                     ELSE lastCall.res)

\* memfd_create answered ENOSYS and the named fallback is entered under a
\* fresh name.
C12_Witness ==
    /\ lastCall.call = "memfd_create"
    /\ lastCall.res = "ENOSYS"
    /\ shm_pc = "shm_open"
    /\ mem_file_handle \in Handles
    /\ handle_gen = 1

\* create_shm_fd has returned from the named fallback.
ReturnedFromFallback ==
    shm_pc = "returned" /\ lastCall.call \in {"shm_open", "shm_unlink", "close"}

\* C13: a successful return from the fallback hands back the descriptor of
\* the name, with no name created by the call still linked; an error return
\* from the fallback leaves no descriptor of the call open.
C13_FallbackLeavesNothing ==
    ReturnedFromFallback =>
        /\ shm_ret.ok =>
              /\ linked = {}
              /\ shm_ret.fd = ShmFd(mem_file_handle)
              /\ open_fds = {shm_ret.fd}
        /\ ~shm_ret.ok => open_fds = {}

\* shm_unlink failed after a successful shm_open, close was called and the
\* error was returned.
C13_Witness ==
    /\ shm_pc = "returned"
    /\ lastCall.call = "close"
    /\ lastCall.res = "Ok"
    /\ shm_ret = RetErr("EACCES")
    /\ open_fds = {}

\* ---- the events of the outputs

\* The step delivers an output event to one of the two handlers.
OutputEventStep == nOutputEvents' = nOutputEvents + 1

\* The event meets no output of outs.
Unmatched(e, outs) ==
    \/ e.iface = "wl_output" /\ \A i \in 1..Len(outs) : outs[i].wl_output # e.proxy
    \/ e.iface = "zxdg_output_v1" /\ e.index >= Len(outs)

\* The event is of an unknown kind, or a Geometry with an unknown transform.
UnknownKind(e) ==
    \/ e.ev.type = "Unknown"
    \/ e.iface = "wl_output" /\ e.ev.type = "Geometry" /\ ~e.ev.known

\* C15: an output event that meets no registered output, an event of an
\* unknown kind and a Geometry event with an unrecognised transform leave
\* every output record as it was.
C15_UnmatchedEventsIgnored ==
    [][ (OutputEventStep
         /\ (Unmatched(lastOutputEvent', outputs) \/ UnknownKind(lastOutputEvent')))
        => outputs' = outputs ]_vars

\* An index past the end has been delivered to the geometry handler while an
\* output was registered, and the output still has its default region.
C15_Witness ==
    /\ Len(outputs) = 1
    /\ lastOutputEvent.iface = "zxdg_output_v1"
    /\ lastOutputEvent.index = 1
    /\ lastOutputEvent.ev.type = "LogicalPosition"
    /\ outputs[1].logical_region = DefaultRegion

\* C17: list_outputs hands out no logical position or size that arrived
\* without a Done of the geometry stream after it.
C17_RegionReadableAfterDone ==
    hasListed => listedUndone = {}

\* outs with one component of the logical region of the output at index i
\* (from 0) replaced.
WithPosition(outs, i, e) ==
    [outs EXCEPT ![i + 1].logical_region.position = [x |-> e.x, y |-> e.y]]

WithSize(outs, i, e) ==
    [outs EXCEPT ![i + 1].logical_region.size =
        [width |-> e.width, height |-> e.height]]

\* C19: a LogicalPosition or LogicalSize event with index i changes that
\* component of the logical region of the output at position i and nothing
\* else, and the output list only grows at its end, so that index i keeps
\* denoting the same output.
C19_RoutedByIndex ==
    /\ [][ (OutputEventStep
            /\ lastOutputEvent'.iface = "zxdg_output_v1"
            /\ lastOutputEvent'.index < Len(outputs))
           => LET e == lastOutputEvent'
              IN /\ e.ev.type = "LogicalPosition"
                      => outputs' = WithPosition(outputs, e.index, e.ev)
                 /\ e.ev.type = "LogicalSize"
                      => outputs' = WithSize(outputs, e.index, e.ev) ]_vars
    /\ [][ /\ Len(outputs') >= Len(outputs)
           /\ \A k \in 1..Len(outputs) :
                 outputs'[k].wl_output = outputs[k].wl_output ]_vars

\* The second of two outputs has received its size after its position; the
\* first one is as the registry handler made it.
C19_Witness ==
    /\ Len(outputs) = 2
    /\ lastOutputEvent.iface = "zxdg_output_v1"
    /\ lastOutputEvent.index = 1
    /\ lastOutputEvent.ev.type = "LogicalSize"
    /\ outputs[2].logical_region =
          [position |-> [x |-> 10, y |-> 20],
           size |-> [width |-> 1280, height |-> 720]]
    /\ outputs[1].logical_region = DefaultRegion
    /\ outputs[1].wl_output # outputs[2].wl_output

\* ---- the overlay surfaces

\* The Configure events delivered so far, as the acknowledgements they call
\* for: the surface and the serial of each, in order of arrival.
RECURSIVE ConfiguresOf(_)
ConfiguresOf(log) ==
    IF log = <<>> THEN <<>>
    ELSE LET rest == ConfiguresOf(SubSeq(log, 1, Len(log) - 1))
             last == log[Len(log)]
         IN IF last.ev.type = "Configure"
            THEN Append(rest, [surface |-> last.surface, serial |-> last.ev.serial])
            ELSE rest

\* C16: an output is in the configured set only if a Configure event of its
\* surface was received and acknowledged with the serial of that event; every
\* Configure event is acknowledged once, with its own serial; Closed and other
\* events acknowledge nothing and add no output.
C16_ConfiguredMeansAcked ==
    /\ \A o \in configured_outputs :
          \E i \in 1..Len(layerLog), j \in 1..Len(acks) :
             /\ layerLog[i].surface = o
             /\ layerLog[i].ev.type = "Configure"
             /\ acks[j] = [surface |-> o, serial |-> layerLog[i].ev.serial]
    /\ acks = ConfiguresOf(layerLog)

\* One surface was configured and then closed, the other was only closed.
C16_Witness ==
    /\ Len(layerLog) = 3
    /\ layerLog[1] = [surface |-> "output-1", ev |-> LayerEv("Configure", 8)]
    /\ layerLog[2].ev.type = "Closed"
    /\ layerLog[3] = [surface |-> "output-2", ev |-> LayerEv("Closed", 0)]
    /\ configured_outputs = {"output-1"}
    /\ acks = << [surface |-> "output-1", serial |-> 8] >>

\* ---- frame to image: sizes and rows

\* The bytes one pixel of the format takes in the mapped region.
BytesPerPixel(format) == IF format = "Bgr888" THEN 3 ELSE 4

\* The subpixels one pixel of the image takes.
Channels(format) == IF format = "Bgr888" THEN 3 ELSE 4

CompletePixels(fr) == Len(fr.data) \div BytesPerPixel(fr.format)

Converted == result.tag # "none"

\* C18: the conversion of a frame with a recognised tag is BufferTooSmall
\* exactly when the region holds fewer than width x height complete pixels;
\* otherwise it is an image of width x height pixels, backed by at least as
\* many.
C18_BufferTooSmallExactly ==
    (Converted /\ frame.format \in RecognisedTags) =>
        IF CompletePixels(frame) < frame.width * frame.height
        THEN result = Err("BufferTooSmall")
        ELSE /\ result.tag = ImageKind(frame.format)
             /\ result.err = "none"
             /\ result.width = frame.width
             /\ result.height = frame.height
             /\ Len(result.buf) >=
                   Channels(frame.format) * frame.width * frame.height

\* A 2 x 2 frame of a 4-byte format with three pixels and three more bytes
\* has been refused.
C18_Witness ==
    /\ frame.format = "Argb8888"
    /\ frame.width = 2 /\ frame.height = 2
    /\ Len(frame.data) = 15
    /\ result = Err("BufferTooSmall")

FourByteTags == RecognisedTags \ {"Bgr888"}

\* The converter TryFrom applies to the format, on one pixel.
ConvertPixel(format, c) ==
    CASE format \in {"Xbgr8888", "Abgr8888"} -> abgr8888_to_rgba8(c)
      [] format \in {"Xrgb8888", "Argb8888"} -> argb8888_to_rgba8(c)
      [] OTHER -> abgr2101010_to_rgba16(c)

\* The four bytes at offset y * stride + 4 * x of the mapped region.
SourcePixel(fr, x, y) ==
    SubSeq(fr.data, y * fr.stride + 4 * x + 1, y * fr.stride + 4 * x + 4)

\* The pixel of the image at column x, row y.
ImagePixel(img, x, y) ==
    SubSeq(img.buf, 4 * (y * img.width + x) + 1, 4 * (y * img.width + x) + 4)

\* C20: for a frame of a 4-byte format whose rows carry padding, the pixel of
\* the image at column x, row y comes from the bytes at y * stride + 4 * x.
C20_RowsFollowStride ==
    ( /\ Converted /\ result.tag # "Err"
      /\ frame.format \in FourByteTags
      /\ frame.stride > 4 * frame.width
      /\ Len(frame.data) >= frame.stride * frame.height )
    => \A x \in 0..(frame.width - 1), y \in 0..(frame.height - 1) :
          ImagePixel(result, x, y)
            = ConvertPixel(frame.format, SourcePixel(frame, x, y))

\* ---- the size of a frame in bytes

\* Primes below 2^15 whose product is above 2^64: a number below 2^64 is
\* known from its remainders by them.
CheckPrimes == {32707, 32713, 32717, 32719, 32749}

\* The remainder by p of the number with the bytes x.
RECURSIVE ModOf(_, _)
ModOf(x, p) ==
    IF x = <<>> THEN 0
    ELSE (x[1] + 256 * ModOf(Tail(x), p)) % p

\* C21: byte_size returns stride x height for every u32 stride and height: no
\* byte of the product is lost to the 64 bits it is formed in, and the value
\* returned is the product.
C21_ByteSizeIsProduct ==
    byte_size_ret.called =>
        /\ ~byte_size_ret.overflow
        /\ Len(byte_size_ret.value) = 8
        /\ \A p \in CheckPrimes :
              ModOf(byte_size_ret.value, p)
                = (ModOf(self_stride, p) * ModOf(self_height, p)) % p

\* The largest stride and height: (2^32 - 1)^2 = 0xFFFFFFFE00000001.
C21_Witness ==
    /\ self_stride = <<255, 255, 255, 255>>
    /\ self_height = <<255, 255, 255, 255>>
    /\ byte_size_ret.called
    /\ byte_size_ret.value = <<1, 0, 0, 0, 254, 255, 255, 255>>

====
